---- MODULE Spec2Model ----
(***************************************************************************)
(* Model of two HAL services of the Analog Devices targets:                *)
(*   - gpio_irq_api.c (ADuCM3029): channel table, edge routing onto the    *)
(*     two group interrupt lines INTA / INTB, and the callback that        *)
(*     demultiplexes a pin bitmask into user handler invocations;          *)
(*   - lp_ticker_api.c (ADuCM4050): the low power ticker built on RTC1.    *)
(* The vendor driver (adi_gpio, adi_rtc) is not part of the sources;       *)
(* its registers are modelled as plain variables.                          *)
(***************************************************************************)
EXTENDS Integers, Sequences, FiniteSets, TLC

(***************************************************************************)
(* Program constants of gpio_irq_api.c                                     *)
(***************************************************************************)
MAX_GPIO_LINES == 16
MAX_GPIO_PORTS == 3
\* PinName packs the port above GPIO_PORT_SHIFT and the line in the low byte
GPIO_PORT_SHIFT == 12
\* the "not connected" pin name, (int)0xFFFFFFFF
NC == -1

NULL == "NULL"
IRQ_NONE == "IRQ_NONE"
IRQ_RISE == "IRQ_RISE"
IRQ_FALL == "IRQ_FALL"
gpio_irq_event == {IRQ_NONE, IRQ_RISE, IRQ_FALL}
SYS_GPIO_INTA_IRQn == "INTA"
SYS_GPIO_INTB_IRQn == "INTB"

(***************************************************************************)
(* Bounds of the model                                                     *)
(***************************************************************************)
\* ids handed to gpio_irq_init are drawn from 0..MaxId (0 is the reserved id)
MaxId == 2
\* number of caller-owned gpio_irq_t objects
NumObjs == 1

Ports == 0 .. (MAX_GPIO_PORTS - 1)
Lines == 0 .. (MAX_GPIO_LINES - 1)
PinNameOf(port, line) == port * (2 ^ GPIO_PORT_SHIFT) + line
\* the pins the lifecycle operations are exercised on
PinSample == {PinNameOf(1, 0), PinNameOf(1, 2)}
Ids == 0 .. MaxId
Objs == 1 .. NumObjs
Handlers == {"h1"}

VARIABLES
    channel_ids,      \* static gpio_chan_info_t channel_ids[MAX_GPIO_PORTS][MAX_GPIO_LINES],
                      \* kept as the entries that differ from the zeroed entry
    irq_handler,      \* static gpio_irq_handler irq_handler
    gpio_initialized, \* extern uint8_t gpio_initialized
    IENA,             \* per port: interrupt enable register of line INTA
    IENB,             \* per port: interrupt enable register of line INTB
    POL,              \* per port: interrupt polarity register (bit set = rising)
    cbReg,            \* per line: is gpio_irq_callback registered with the driver
    objs,             \* the callers' gpio_irq_t objects
    calls,            \* handler invocations made by the last step
    last,             \* the last operation, its arguments and its return value
    fg                \* the foreground call that is being executed statement by
                      \* statement, and the states its remaining writes lead through

gpioVars == <<channel_ids, irq_handler, gpio_initialized, IENA, IENB, POL, cbReg,
              objs, calls, last, fg>>

VARIABLES
    rtcCount,     \* RTC1 count register, read by adi_rtc_GetCount
    rtcBoot,      \* the count the behaviour started with
    rtcAlarm,     \* RTC1 alarm (comparator) register, written by adi_rtc_SetAlarm
    rtcAlarmEn,   \* alarm enabled, written by adi_rtc_EnableAlarm
    rtcIntEn,     \* alarm interrupt enabled, written by adi_rtc_EnableInterrupts
    rtcPending,   \* an alarm match is latched and not yet served
    tk,           \* the call of lp_ticker_set_interrupt in progress / last made
    fired,        \* lp_ticker_irq_handler invocations made by the last call itself
    irqFired,     \* invocations made from the RTC interrupt since that call began
    regWrites,    \* alarm register writes made since the last call began
    readVal,      \* what the last lp_ticker_read() returned (-1: none yet)
    alarmLog      \* which call's deadline the comparator holds, which one a latched
                  \* match is for, and the invocations made from the RTC interrupt

tickerVars == <<rtcCount, rtcBoot, rtcAlarm, rtcAlarmEn, rtcIntEn, rtcPending, tk,
                fired, irqFired, regWrites, readVal, alarmLog>>

(***************************************************************************)
(* Bit arithmetic on register values                                       *)
(***************************************************************************)
\* (v >> n) & 1
BitTest(v, n) == ((v \div (2 ^ n)) % 2) = 1
\* v | (1 << n)
BitOr(v, n) == IF BitTest(v, n) THEN v ELSE v + (2 ^ n)
\* v & ~(1 << n)
BitClear(v, n) == IF BitTest(v, n) THEN v - (2 ^ n) ELSE v

\* port = pin >> GPIO_PORT_SHIFT; pin_num = pin & 0xFF
PortOf(pin) == pin \div (2 ^ GPIO_PORT_SHIFT)
PinNumOf(pin) == pin % 256

\* The state the gpio functions work on, as one record
GpioState ==
    [channel_ids |-> channel_ids, irq_handler |-> irq_handler,
     gpio_initialized |-> gpio_initialized, IENA |-> IENA, IENB |-> IENB,
     POL |-> POL, cbReg |-> cbReg, objs |-> objs]

UnusedEntry == [id |-> 0, event |-> IRQ_NONE, int_enable |-> 0]
UnusedObj == [id |-> 0, pinname |-> NC]

\* State after program start: zeroed statics, reset values of the registers
GpioReset ==
    [channel_ids |-> [k \in {} |-> UnusedEntry],
     irq_handler |-> NULL,
     gpio_initialized |-> 0,
     IENA |-> [p \in Ports |-> 0],
     IENB |-> [p \in Ports |-> 0],
     POL |-> [p \in Ports |-> 0],
     cbReg |-> [q \in {SYS_GPIO_INTA_IRQn, SYS_GPIO_INTB_IRQn} |-> FALSE],
     objs |-> [o \in Objs |-> UnusedObj]]

\* channel_ids[port][line]: an entry that is not stored is the zeroed entry
Chan(s, port, line) ==
    IF <<port, line>> \in DOMAIN s.channel_ids
    THEN s.channel_ids[<<port, line>>]
    ELSE UnusedEntry

\* channel_ids[port][line] = entry
PutChan(s, port, line, entry) ==
    LET k == <<port, line>>
        d == IF entry = UnusedEntry
             THEN DOMAIN s.channel_ids \ {k}
             ELSE DOMAIN s.channel_ids \cup {k}
    IN  [s EXCEPT !.channel_ids = [x \in d |-> IF x = k THEN entry ELSE s.channel_ids[x]]]

(***************************************************************************)
(* Vendor driver calls used by gpio_irq_api.c                              *)
(***************************************************************************)
\* a & b
RECURSIVE BitAnd(_, _)
BitAnd(a, b) ==
    IF a = 0 \/ b = 0 THEN 0
    ELSE (a % 2) * (b % 2) + 2 * BitAnd(a \div 2, b \div 2)

\* a read that returns only the bits asked for in Pins
GetGroupInterruptPinsOfMask(s, port, eIrq, Pins) ==
    BitAnd(IF eIrq = SYS_GPIO_INTA_IRQn THEN s.IENA[port] ELSE s.IENB[port], Pins)

\* reads the group interrupt enable register of a port: the whole register
\* ("Read the current content of the IENA register", gpio_irq_api.c:54)
adi_gpio_GetGroupInterruptPins(s, port, eIrq, Pins) ==
    IF eIrq = SYS_GPIO_INTA_IRQn THEN s.IENA[port] ELSE s.IENB[port]

\* writes the group interrupt enable register of a port
adi_gpio_SetGroupInterruptPins(s, port, eIrq, value) ==
    IF eIrq = SYS_GPIO_INTA_IRQn
    THEN [s EXCEPT !.IENA[port] = value]
    ELSE [s EXCEPT !.IENB[port] = value]

adi_gpio_GetGroupInterruptPolarity(s, port, Pins) == s.POL[port]

adi_gpio_SetGroupInterruptPolarity(s, port, value) == [s EXCEPT !.POL[port] = value]

adi_gpio_RegisterCallback(s, eIrq) == [s EXCEPT !.cbReg[eIrq] = TRUE]

(***************************************************************************)
(* gpio_irq_api.c                                                          *)
(***************************************************************************)
\* One handler invocation: irq_handler(channel_ids[Event][index].id,
\*                                     channel_ids[Event][index].event)
HandlerCall(s, Event, index) ==
    [handler |-> s.irq_handler,
     id |-> Chan(s, Event, index).id,
     event |-> Chan(s, Event, index).event]

\* CallbackStep with index++ made only when the bit is set
CallbackStepSkipsIndex(s, Event, st) ==
    IF st.pin % 2 = 1
    THEN [pin |-> st.pin \div 2, index |-> st.index + 1,
          made |-> IF s.irq_handler # NULL
                   THEN Append(st.made, HandlerCall(s, Event, st.index))
                   ELSE st.made]
    ELSE [pin |-> st.pin \div 2, index |-> st.index, made |-> st.made]

\* One pass of the while loop of gpio_irq_callback: the remaining mask `pin`, the
\* bit position `index` and the invocations made so far
CallbackStep(s, Event, st) ==
    [pin |-> st.pin \div 2,
     index |-> st.index + 1,
     made |-> IF st.pin % 2 = 1 /\ s.irq_handler # NULL
              THEN Append(st.made, HandlerCall(s, Event, st.index))
              ELSE st.made]

RECURSIVE CallbackLoop(_, _, _)
CallbackLoop(s, Event, st) ==
    IF st.pin = 0 THEN st.made ELSE CallbackLoop(s, Event, CallbackStep(s, Event, st))

\* gpio_irq_callback(pCBParam, Event, pArg) with pin = *(ADI_GPIO_DATA* )pArg:
\* the sequence of handler invocations it makes
gpio_irq_callback(s, Event, pin) ==
    CallbackLoop(s, Event, [pin |-> pin, index |-> 0, made |-> <<>>])

\* disable_pin_interrupt without its second half (IENB)
DisableOnlyLineA(s, port, pin_number) ==
    LET a == adi_gpio_GetGroupInterruptPins(s, port, SYS_GPIO_INTA_IRQn, 2 ^ pin_number)
    IN  adi_gpio_SetGroupInterruptPins(s, port, SYS_GPIO_INTA_IRQn,
                                       BitClear(a, pin_number))

\* Clears the pin's bit in IENA and in IENB
disable_pin_interrupt(s, port, pin_number) ==
    LET a == adi_gpio_GetGroupInterruptPins(s, port, SYS_GPIO_INTA_IRQn, 2 ^ pin_number)
        s1 == adi_gpio_SetGroupInterruptPins(s, port, SYS_GPIO_INTA_IRQn,
                                             BitClear(a, pin_number))
        b == adi_gpio_GetGroupInterruptPins(s1, port, SYS_GPIO_INTB_IRQn, 2 ^ pin_number)
    IN  adi_gpio_SetGroupInterruptPins(s1, port, SYS_GPIO_INTB_IRQn,
                                       BitClear(b, pin_number))

\* enable_pin_interrupt writing the pin's bit alone, without the read
EnableWritesOnlyPin(s, port, pin_number, eIrq) ==
    adi_gpio_SetGroupInterruptPins(s, port, eIrq, 2 ^ pin_number)

\* Sets the pin's bit in the enable register of line eIrq
enable_pin_interrupt(s, port, pin_number, eIrq) ==
    LET v == adi_gpio_GetGroupInterruptPins(s, port, eIrq, 2 ^ pin_number)
    IN  adi_gpio_SetGroupInterruptPins(s, port, eIrq, BitOr(v, pin_number))

\* gpio_irq_init_status without the test of the id
InitStatusNoIdCheck(pin, id) == IF pin = NC THEN -1 ELSE 0

\* The status gpio_irq_init returns: if ((pin == NC) || (id == 0)) return -1;
gpio_irq_init_status(pin, id) == IF (pin = NC) \/ (id = 0) THEN -1 ELSE 0

\* gpio_irq_init_body storing the id only, leaving event and int_enable
InitBodyKeepsEdge(s, obj, pin, handler, id) ==
    LET port == PortOf(pin)
        pin_num == PinNumOf(pin)
        s1 == [s EXCEPT !.gpio_initialized = 1]
        s2 == IF handler # NULL THEN [s1 EXCEPT !.irq_handler = handler] ELSE s1
        s3 == disable_pin_interrupt(s2, port, pin_num)
    IN  [PutChan(s3, port, pin_num, [Chan(s3, port, pin_num) EXCEPT !.id = id])
            EXCEPT !.objs[obj] = [id |-> id, pinname |-> pin]]

\* The body of gpio_irq_init past the argument check
gpio_irq_init_body(s, obj, pin, handler, id) ==
    LET port == PortOf(pin)
        pin_num == PinNumOf(pin)
        s1 == [s EXCEPT !.gpio_initialized = 1]
        s2 == IF handler # NULL THEN [s1 EXCEPT !.irq_handler = handler] ELSE s1
        s3 == disable_pin_interrupt(s2, port, pin_num)
    IN  [PutChan(s3, port, pin_num, [id |-> id, event |-> IRQ_NONE, int_enable |-> 0])
            EXCEPT !.objs[obj] = [id |-> id, pinname |-> pin]]

\* gpio_irq_init(obj, pin, handler, id): the state it leaves
gpio_irq_init(s, obj, pin, handler, id) ==
    IF gpio_irq_init_status(pin, id) < 0
    THEN s
    ELSE gpio_irq_init_body(s, obj, pin, handler, id)

\* gpio_irq_enable without the early return on IRQ_NONE, and with the rising
\* branch taken for every event but IRQ_FALL
EnableIgnoresNone(s, obj) ==
    LET port == PortOf(s.objs[obj].pinname)
        pin_num == PinNumOf(s.objs[obj].pinname)
        ev == Chan(s, port, pin_num).event
        s1 == IF ev = IRQ_FALL
              THEN enable_pin_interrupt(
                       adi_gpio_RegisterCallback(s, SYS_GPIO_INTB_IRQn),
                       port, pin_num, SYS_GPIO_INTB_IRQn)
              ELSE enable_pin_interrupt(
                       adi_gpio_RegisterCallback(s, SYS_GPIO_INTA_IRQn),
                       port, pin_num, SYS_GPIO_INTA_IRQn)
    IN  PutChan(s1, port, pin_num, [Chan(s1, port, pin_num) EXCEPT !.int_enable = 1])

\* gpio_irq_enable(obj)
gpio_irq_enable(s, obj) ==
    LET port == PortOf(s.objs[obj].pinname)
        pin_num == PinNumOf(s.objs[obj].pinname)
        ev == Chan(s, port, pin_num).event
    IN  IF ev = IRQ_NONE
        THEN s
        ELSE LET s1 == IF ev = IRQ_RISE
                       THEN enable_pin_interrupt(
                                adi_gpio_RegisterCallback(s, SYS_GPIO_INTA_IRQn),
                                port, pin_num, SYS_GPIO_INTA_IRQn)
                       ELSE IF ev = IRQ_FALL
                       THEN enable_pin_interrupt(
                                adi_gpio_RegisterCallback(s, SYS_GPIO_INTB_IRQn),
                                port, pin_num, SYS_GPIO_INTB_IRQn)
                       ELSE s
             IN  PutChan(s1, port, pin_num, [Chan(s1, port, pin_num) EXCEPT !.int_enable = 1])

\* gpio_irq_disable(obj)
gpio_irq_disable(s, obj) ==
    LET port == PortOf(s.objs[obj].pinname)
        pin_num == PinNumOf(s.objs[obj].pinname)
        ev == Chan(s, port, pin_num).event
    IN  IF ev = IRQ_NONE
        THEN s
        ELSE LET s1 == IF ev = IRQ_RISE
                       THEN disable_pin_interrupt(s, port, pin_num)
                       ELSE IF ev = IRQ_FALL
                       THEN disable_pin_interrupt(s, port, pin_num)
                       ELSE s
             IN  PutChan(s1, port, pin_num,
                         [Chan(s1, port, pin_num) EXCEPT !.int_enable = 0])

\* gpio_irq_free(obj)
gpio_irq_free(s, obj) ==
    LET port == PortOf(s.objs[obj].pinname)
        pin_num == PinNumOf(s.objs[obj].pinname)
        s1 == gpio_irq_disable(s, obj)
    IN  PutChan(s1, port, pin_num, [id |-> 0, event |-> IRQ_NONE, int_enable |-> 0])

\* gpio_irq_set without the early return on IRQ_NONE
SetClearsOnNone(s, obj, event, enable) ==
    LET port == PortOf(s.objs[obj].pinname)
        pin_num == PinNumOf(s.objs[obj].pinname)
        pol == adi_gpio_GetGroupInterruptPolarity(s, port, 2 ^ pin_num)
        s1 == adi_gpio_SetGroupInterruptPolarity(
                  s, port,
                  IF event = IRQ_RISE THEN BitOr(pol, pin_num) ELSE BitClear(pol, pin_num))
        s2 == PutChan(s1, port, pin_num, [Chan(s1, port, pin_num) EXCEPT !.event = event])
    IN  IF enable # 0 THEN gpio_irq_enable(s2, obj) ELSE gpio_irq_disable(s2, obj)

\* gpio_irq_set(obj, event, enable)
gpio_irq_set(s, obj, event, enable) ==
    LET port == PortOf(s.objs[obj].pinname)
        pin_num == PinNumOf(s.objs[obj].pinname)
        pol == adi_gpio_GetGroupInterruptPolarity(s, port, 2 ^ pin_num)
        s1 == adi_gpio_SetGroupInterruptPolarity(
                  s, port,
                  IF event = IRQ_RISE THEN BitOr(pol, pin_num) ELSE BitClear(pol, pin_num))
        s2 == PutChan(s1, port, pin_num, [Chan(s1, port, pin_num) EXCEPT !.event = event])
    IN  IF event = IRQ_NONE
        THEN s
        ELSE IF enable # 0 THEN gpio_irq_enable(s2, obj) ELSE gpio_irq_disable(s2, obj)

(***************************************************************************)
(* Hardware and driver interrupt service: a physical edge on one pin.      *)
(* The edge is latched when it matches the pin's polarity bit; the driver  *)
(* then services line INTA and line INTB in turn, and on each line where   *)
(* the pin is unmasked and a callback is registered it calls the callback  *)
(* with the port and the bitmask of the pins that fired.                   *)
(***************************************************************************)
EdgeMatchesPolarity(s, port, pin_num, edge) ==
    (edge = IRQ_RISE) <=> BitTest(s.POL[port], pin_num)

LineCalls(s, port, pin_num, eIrq) ==
    LET ien == IF eIrq = SYS_GPIO_INTA_IRQn THEN s.IENA[port] ELSE s.IENB[port]
    IN  IF BitTest(ien, pin_num) /\ s.cbReg[eIrq]
        THEN gpio_irq_callback(s, port, 2 ^ pin_num)
        ELSE <<>>

PhysicalEdgeCalls(s, port, pin_num, edge) ==
    IF EdgeMatchesPolarity(s, port, pin_num, edge)
    THEN LineCalls(s, port, pin_num, SYS_GPIO_INTA_IRQn)
         \o LineCalls(s, port, pin_num, SYS_GPIO_INTB_IRQn)
    ELSE <<>>

(***************************************************************************)
(* The API functions statement by statement: the sequence of states a call *)
(* leads through, one state per write to a register, to the channel table, *)
(* to irq_handler or to the caller's object. The interrupt callback only   *)
(* reads, so the states are those of the call run without preemption.      *)
(***************************************************************************)
\* the state a sequence of writes ends in, from state s
LastOf(s, steps) == IF steps = <<>> THEN s ELSE steps[Len(steps)]

\* disable_pin_interrupt: the write of IENA (line 61), the write of IENB (line 70)
disable_pin_interrupt_steps(s, port, pin_number) ==
    LET a == adi_gpio_SetGroupInterruptPins(
                 s, port, SYS_GPIO_INTA_IRQn,
                 BitClear(adi_gpio_GetGroupInterruptPins(s, port, SYS_GPIO_INTA_IRQn,
                                                         2 ^ pin_number), pin_number))
        b == adi_gpio_SetGroupInterruptPins(
                 a, port, SYS_GPIO_INTB_IRQn,
                 BitClear(adi_gpio_GetGroupInterruptPins(a, port, SYS_GPIO_INTB_IRQn,
                                                         2 ^ pin_number), pin_number))
    IN  <<a, b>>

\* gpio_irq_enable: the callback registration, the unmasking, int_enable = 1
gpio_irq_enable_steps(s, obj) ==
    LET port == PortOf(s.objs[obj].pinname)
        pin_num == PinNumOf(s.objs[obj].pinname)
        ev == Chan(s, port, pin_num).event
        eIrq == IF ev = IRQ_RISE THEN SYS_GPIO_INTA_IRQn ELSE SYS_GPIO_INTB_IRQn
        r == adi_gpio_RegisterCallback(s, eIrq)
        e == enable_pin_interrupt(r, port, pin_num, eIrq)
    IN  IF ev = IRQ_NONE
        THEN <<>>
        ELSE <<r, e, PutChan(e, port, pin_num, [Chan(e, port, pin_num) EXCEPT !.int_enable = 1])>>

\* gpio_irq_disable: the two writes of disable_pin_interrupt, int_enable = 0
gpio_irq_disable_steps(s, obj) ==
    LET port == PortOf(s.objs[obj].pinname)
        pin_num == PinNumOf(s.objs[obj].pinname)
        ev == Chan(s, port, pin_num).event
        d == disable_pin_interrupt_steps(s, port, pin_num)
    IN  IF ev = IRQ_NONE
        THEN <<>>
        ELSE d \o <<PutChan(d[2], port, pin_num, [Chan(d[2], port, pin_num) EXCEPT !.int_enable = 0])>>

\* gpio_irq_free: gpio_irq_disable, then id = 0, event = IRQ_NONE, int_enable = 0
gpio_irq_free_steps(s, obj) ==
    LET port == PortOf(s.objs[obj].pinname)
        pin_num == PinNumOf(s.objs[obj].pinname)
        d == gpio_irq_disable_steps(s, obj)
        s1 == LastOf(s, d)
        w1 == PutChan(s1, port, pin_num, [Chan(s1, port, pin_num) EXCEPT !.id = 0])
        w2 == PutChan(w1, port, pin_num, [Chan(w1, port, pin_num) EXCEPT !.event = IRQ_NONE])
        w3 == PutChan(w2, port, pin_num, [Chan(w2, port, pin_num) EXCEPT !.int_enable = 0])
    IN  d \o <<w1, w2, w3>>

\* gpio_irq_set: the polarity write (line 178), the event write (line 180), then
\* gpio_irq_enable or gpio_irq_disable
gpio_irq_set_steps(s, obj, event, enable) ==
    LET port == PortOf(s.objs[obj].pinname)
        pin_num == PinNumOf(s.objs[obj].pinname)
        pol == adi_gpio_GetGroupInterruptPolarity(s, port, 2 ^ pin_num)
        s1 == adi_gpio_SetGroupInterruptPolarity(
                  s, port,
                  IF event = IRQ_RISE THEN BitOr(pol, pin_num) ELSE BitClear(pol, pin_num))
        s2 == PutChan(s1, port, pin_num, [Chan(s1, port, pin_num) EXCEPT !.event = event])
    IN  IF event = IRQ_NONE
        THEN <<>>
        ELSE <<s1, s2>> \o (IF enable # 0 THEN gpio_irq_enable_steps(s2, obj)
                                          ELSE gpio_irq_disable_steps(s2, obj))

\* gpio_irq_init: gpio_initialized, irq_handler, the two writes of
\* disable_pin_interrupt, the three fields of the entry, the object
gpio_irq_init_steps(s, obj, pin, handler, id) ==
    LET port == PortOf(pin)
        pin_num == PinNumOf(pin)
        s1 == [s EXCEPT !.gpio_initialized = 1]
        s2 == IF handler # NULL THEN [s1 EXCEPT !.irq_handler = handler] ELSE s1
        d == disable_pin_interrupt_steps(s2, port, pin_num)
        w1 == PutChan(d[2], port, pin_num, [Chan(d[2], port, pin_num) EXCEPT !.id = id])
        w2 == PutChan(w1, port, pin_num, [Chan(w1, port, pin_num) EXCEPT !.event = IRQ_NONE])
        w3 == PutChan(w2, port, pin_num, [Chan(w2, port, pin_num) EXCEPT !.int_enable = 0])
        o == [w3 EXCEPT !.objs[obj] = [id |-> id, pinname |-> pin]]
    IN  IF gpio_irq_init_status(pin, id) < 0
        THEN <<>>
        ELSE <<s1, s2>> \o d \o <<w1, w2, w3, o>>

\* no foreground call is being executed statement by statement
FgIdle == [pin |-> NC, steps |-> <<>>, before |-> UnusedEntry]

(***************************************************************************)
(* Operations of the gpio interrupt API as actions                         *)
(***************************************************************************)
\* `before` is the channel entry of the pin operated on as the operation found it;
\* `port` and `mask` are the arguments the driver passes to gpio_irq_callback
NoOp == [op |-> "none", obj |-> 0, pin |-> NC, id |-> 0, event |-> IRQ_NONE,
         enable |-> 0, ret |-> 0, before |-> UnusedEntry, port |-> 0, mask |-> 0]

EntryOf(s, pin) == Chan(s, PortOf(pin), PinNumOf(pin))

SetGpio(t) ==
    /\ channel_ids' = t.channel_ids
    /\ irq_handler' = t.irq_handler
    /\ gpio_initialized' = t.gpio_initialized
    /\ IENA' = t.IENA
    /\ IENB' = t.IENB
    /\ POL' = t.POL
    /\ cbReg' = t.cbReg
    /\ objs' = t.objs

\* An object may be passed to set / enable / disable / free once gpio_irq_init
\* has filled it in
Initialised(o) == objs[o].pinname # NC

GpioInit(o, pin, handler, id) ==
    /\ SetGpio(gpio_irq_init(GpioState, o, pin, handler, id))
    /\ calls' = <<>>
    /\ last' = [NoOp EXCEPT !.op = "init", !.obj = o, !.pin = pin, !.id = id,
                            !.ret = gpio_irq_init_status(pin, id),
                            !.before = IF pin = NC THEN UnusedEntry
                                       ELSE EntryOf(GpioState, pin)]
    /\ UNCHANGED <<fg, tickerVars>>

GpioFree(o) ==
    /\ Initialised(o)
    /\ SetGpio(gpio_irq_free(GpioState, o))
    /\ calls' = <<>>
    /\ last' = [NoOp EXCEPT !.op = "free", !.obj = o, !.pin = objs[o].pinname,
                            !.before = EntryOf(GpioState, objs[o].pinname)]
    /\ UNCHANGED <<fg, tickerVars>>

GpioSet(o, event, enable) ==
    /\ Initialised(o)
    /\ SetGpio(gpio_irq_set(GpioState, o, event, enable))
    /\ calls' = <<>>
    /\ last' = [NoOp EXCEPT !.op = "set", !.obj = o, !.pin = objs[o].pinname,
                            !.event = event, !.enable = enable,
                            !.before = EntryOf(GpioState, objs[o].pinname)]
    /\ UNCHANGED <<fg, tickerVars>>

GpioEnable(o) ==
    /\ Initialised(o)
    /\ SetGpio(gpio_irq_enable(GpioState, o))
    /\ calls' = <<>>
    /\ last' = [NoOp EXCEPT !.op = "enable", !.obj = o, !.pin = objs[o].pinname,
                            !.before = EntryOf(GpioState, objs[o].pinname)]
    /\ UNCHANGED <<fg, tickerVars>>

GpioDisable(o) ==
    /\ Initialised(o)
    /\ SetGpio(gpio_irq_disable(GpioState, o))
    /\ calls' = <<>>
    /\ last' = [NoOp EXCEPT !.op = "disable", !.obj = o, !.pin = objs[o].pinname,
                            !.before = EntryOf(GpioState, objs[o].pinname)]
    /\ UNCHANGED <<fg, tickerVars>>

\* A physical edge on a pin, served by the driver's interrupt handlers
GpioEdge(pin, edge) ==
    /\ calls' = PhysicalEdgeCalls(GpioState, PortOf(pin), PinNumOf(pin), edge)
    /\ last' = [NoOp EXCEPT !.op = "edge", !.pin = pin, !.event = edge,
                            !.before = EntryOf(GpioState, pin)]
    /\ UNCHANGED <<channel_ids, irq_handler, gpio_initialized, IENA, IENB, POL,
                   cbReg, objs>>
    /\ UNCHANGED <<fg, tickerVars>>

GpioInitState ==
    /\ channel_ids = GpioReset.channel_ids
    /\ irq_handler = GpioReset.irq_handler
    /\ gpio_initialized = GpioReset.gpio_initialized
    /\ IENA = GpioReset.IENA
    /\ IENB = GpioReset.IENB
    /\ POL = GpioReset.POL
    /\ cbReg = GpioReset.cbReg
    /\ objs = GpioReset.objs
    /\ calls = <<>>
    /\ fg = FgIdle
    /\ last = NoOp

GpioNext ==
    \/ \E o \in Objs, pin \in PinSample \cup {NC}, h \in Handlers \cup {NULL}, id \in Ids :
           GpioInit(o, pin, h, id)
    \/ \E o \in Objs : GpioFree(o)
    \/ \E o \in Objs, e \in gpio_irq_event, en \in {0, 1} : GpioSet(o, e, en)
    \/ \E o \in Objs : GpioEnable(o)
    \/ \E o \in Objs : GpioDisable(o)
    \/ \E pin \in PinSample, e \in {IRQ_RISE, IRQ_FALL} : GpioEdge(pin, e)

(***************************************************************************)
(* lp_ticker_api.c: program constants                                      *)
(***************************************************************************)
LFCLK_FREQUENCY_HZ == 32768
RTC_PRESCALER == 0
TICKS_TO_ENABLE_ALARM == 50
\* the event bit rtc1_Callback filters for
ADI_RTC_ALARM_INT == "ADI_RTC_ALARM_INT"

(***************************************************************************)
(* Bounds of the ticker model. uint32_t and float are modelled with        *)
(* WordBits-bit words and MantBits-bit significands (32 and 24 in the      *)
(* program): the arithmetic below is the program's, at reduced width.      *)
(***************************************************************************)
WordBits == 12
MantBits == 8
\* the counter advances at most MaxTicks ticks in one behaviour
MaxTicks == 60
\* lp_ticker_set_interrupt is called at most MaxCalls times in one behaviour
MaxCalls == 2

WordMod == 2 ^ WordBits
WordMax == WordMod - 1

RECURSIVE Gcd(_, _)
Gcd(a, b) == IF b = 0 THEN a ELSE Gcd(b, a % b)

\* TIME_US_PER_TICK = (float)1000000 / (float)(LFCLK_FREQUENCY_HZ >> RTC_PRESCALER),
\* kept as the exact fraction num/den (the quotient 30.517578125 is a float)
TIME_US_PER_TICK ==
    LET hz == LFCLK_FREQUENCY_HZ \div (2 ^ RTC_PRESCALER)
        g == Gcd(1000000, hz)
    IN  [num |-> 1000000 \div g, den |-> hz \div g]

(***************************************************************************)
(* float arithmetic: a float is m * 2^e with m < 2^MantBits; every         *)
(* operation rounds its exact result to the nearest float, ties to even.   *)
(***************************************************************************)
\* scale n/d by powers of two until 2^(MantBits-1) <= n/d < 2^MantBits
RECURSIVE Normalise(_, _, _)
Normalise(n, d, e) ==
    IF n >= d * (2 ^ MantBits) THEN Normalise(n, 2 * d, e + 1)
    ELSE IF n < d * (2 ^ (MantBits - 1)) THEN Normalise(2 * n, d, e - 1)
    ELSE [n |-> n, d |-> d, e |-> e]

\* n/d rounded to the nearest integer, ties to even
RoundNearestEven(n, d) ==
    LET q == n \div d
        r == n % d
    IN  IF (2 * r > d) \/ ((2 * r = d) /\ (q % 2 = 1)) THEN q + 1 ELSE q

\* the float nearest to (n / d) * 2^e
RoundToFloat(n, d, e) ==
    IF n = 0
    THEN [m |-> 0, e |-> 0]
    ELSE LET z == Normalise(n, d, e)
             m == RoundNearestEven(z.n, z.d)
         IN  IF m = 2 ^ MantBits
             THEN [m |-> 2 ^ (MantBits - 1), e |-> z.e + 1]
             ELSE [m |-> m, e |-> z.e]

\* (float)n for an unsigned integer n
IntToFloat(n) == RoundToFloat(n, 1, 0)

\* x / TIME_US_PER_TICK and x * TIME_US_PER_TICK in float
FloatDivTick(x) == RoundToFloat(x.m * TIME_US_PER_TICK.den, TIME_US_PER_TICK.num, x.e)
FloatMulTick(x) == RoundToFloat(x.m * TIME_US_PER_TICK.num, TIME_US_PER_TICK.den, x.e)

\* does the float exceed the range of uint32_t
FloatOutOfRange(x) == (x.m > 0) /\ ((x.e >= WordBits) \/ (x.e >= 0 /\ x.m * (2 ^ x.e) > WordMax))

\* the float truncated toward zero (for floats in the range of uint32_t)
FloatTrunc(x) ==
    IF x.e >= 0 THEN x.m * (2 ^ x.e)
    ELSE IF -x.e > MantBits THEN 0 ELSE x.m \div (2 ^ (-x.e))

\* (uint32_t)x: the values the conversion may produce. A float out of the range
\* of uint32_t makes the conversion undefined: the build may saturate, wrap or
\* yield zero.
FloatToUint32(x) ==
    IF FloatOutOfRange(x)
    THEN {WordMax, 0} \cup (IF x.e <= WordBits THEN {(x.m * (2 ^ x.e)) % WordMod} ELSE {})
    ELSE {FloatTrunc(x)}

(***************************************************************************)
(* lp_ticker_api.c                                                         *)
(***************************************************************************)
\* lp_ticker_read(): the values it may return when the counter holds `count`
lp_ticker_read(count) == FloatToUint32(FloatMulTick(IntToFloat(count)))

\* set_time = (uint32_t)((float)(timestamp) / TIME_US_PER_TICK)
set_time_of(timestamp) == FloatToUint32(FloatDivTick(IntToFloat(timestamp)))

\* Branch without the busy-poll case: every deadline ahead of the count is armed
BranchWithoutMargin(set_time, count) ==
    IF set_time <= count THEN "elapsed" ELSE "normal"

\* which branch lp_ticker_set_interrupt takes for a deadline tick and the count read
Branch(set_time, count) ==
    IF set_time <= count THEN "elapsed"
    ELSE IF set_time <= (count + TICKS_TO_ENABLE_ALARM) % WordMod THEN "near"
    ELSE "normal"

\* the loop left only on a read equal to the deadline: } while (rtcCount != set_time);
PollExitsOnEquality(count, set_time) == count = set_time

\* the exit test of the do-while loop: } while (rtcCount < set_time);
PollExits(count, set_time) == ~(count < set_time)

\* rtc1_Callback invoking the handler for any event bit
Rtc1CallbackAnyBit(nEvent) == IF nEvent # {} THEN 1 ELSE 0

\* rtc1_Callback testing another event bit
Rtc1CallbackWrongBit(nEvent) == IF "ADI_RTC_MOD60ALM_INT" \in nEvent THEN 1 ELSE 0

\* rtc1_Callback(pCBParam, nEvent, EventArg): the number of times it invokes
\* lp_ticker_irq_handler. nEvent is the set of event bits that are set.
rtc1_Callback(nEvent) == IF ADI_RTC_ALARM_INT \in nEvent THEN 1 ELSE 0

\* deadlines and starting counts the ticker is exercised with
TimestampSample == {0, 100, 1600, WordMax}
StartCounts == {0, 2, 100, WordMod - 10}

\* `now` is the count read at line 133, `rtcCount` the count the poll loop read last
\* when it ended
TickerIdle == [pc |-> "idle", timestamp |-> 0, set_time |-> 0, now |-> 0,
               rtcCount |-> 0, branch |-> "none", ncalls |-> 0]

\* a latched match: `for` is the call whose deadline matched (0: none), `during`
\* the number of calls that had returned when it matched
NoMatch == [for |-> 0, during |-> 0]

\* armed: the call whose set_time the comparator register holds (0: none);
\* irq: the matches served by rtc1_Callback invoking the handler, oldest first;
\* cancelled: the calls disabled before the counter reached their deadline;
\* armedLate: more than TICKS_TO_ENABLE_ALARM ticks passed between the read of
\* the counter at line 133 and the last adi_rtc_EnableAlarm(true);
\* served, event: the number of event words the driver has passed to
\* rtc1_Callback, and the last of them
AlarmLogIdle == [armed |-> 0, pending |-> NoMatch, irq |-> <<>>, cancelled |-> {},
                 armedLate |-> FALSE, served |-> 0, event |-> {}]

\* ticks counted since the count `now` was read
TicksSince(now) == (rtcCount - now) % WordMod

\* has the counter reached the deadline of the call in tk
Reached == TicksSince(tk.now) >= tk.set_time - tk.now

\* the number of calls of lp_ticker_set_interrupt that have returned
CallsReturned == IF tk.pc \in {"idle", "returned"} THEN tk.ncalls ELSE tk.ncalls - 1

\* The state lp_ticker_init leaves, after the counter has run for a while
TickerInitState ==
    /\ rtcCount \in StartCounts
    /\ rtcBoot = rtcCount
    /\ rtcAlarm = 0
    /\ rtcAlarmEn = FALSE
    /\ rtcIntEn = FALSE
    /\ rtcPending = FALSE
    /\ tk = TickerIdle
    /\ fired = 0
    /\ irqFired = 0
    /\ regWrites = 0
    /\ readVal = -1
    /\ alarmLog = AlarmLogIdle

NoCallInProgress == tk.pc \in {"idle", "returned"}

\* lines 133-141: the read of the counter and the choice of the branch for the
\* deadline tick set_time
ChooseBranch(timestamp, set_time) ==
    LET b == Branch(set_time, rtcCount)
    IN  /\ tk' = [pc |-> CASE b = "elapsed" -> "returned"
                          [] b = "near" -> "poll"
                          [] OTHER -> "arm_int",
                  timestamp |-> timestamp, set_time |-> set_time,
                  now |-> rtcCount, rtcCount |-> rtcCount, branch |-> b, ncalls |-> tk.ncalls + 1]
        /\ fired' = IF b = "elapsed" THEN rtc1_Callback({ADI_RTC_ALARM_INT}) ELSE 0

\* lp_ticker_set_interrupt(timestamp), lines 124-150: the conversion, the read of
\* the counter and the choice of the branch; the elapsed branch runs to its return
TickerSetInterrupt(timestamp) ==
    /\ NoCallInProgress
    /\ tk.ncalls < MaxCalls
    /\ \E set_time \in set_time_of(timestamp) : ChooseBranch(timestamp, set_time)
    /\ irqFired' = 0
    /\ regWrites' = 0
    /\ readVal' = -1
    /\ UNCHANGED <<rtcCount, rtcBoot, rtcAlarm, rtcAlarmEn, rtcIntEn, rtcPending>>
    /\ UNCHANGED <<alarmLog, gpioVars>>

\* one pass of the do-while loop, lines 144-149
TickerPoll ==
    /\ tk.pc = "poll"
    /\ IF PollExits(rtcCount, tk.set_time)
       THEN /\ tk' = [tk EXCEPT !.pc = "returned", !.rtcCount = rtcCount]
            /\ fired' = fired + rtc1_Callback({ADI_RTC_ALARM_INT})
       ELSE /\ tk' = tk
            /\ fired' = fired
    /\ readVal' = -1
    /\ UNCHANGED <<rtcCount, rtcBoot, rtcAlarm, rtcAlarmEn, rtcIntEn, rtcPending,
                   regWrites>>
    /\ UNCHANGED <<irqFired, alarmLog, gpioVars>>

\* line 155: adi_rtc_EnableInterrupts(hRTC1_Device, ADI_RTC_ALARM_INT, true)
TickerEnableInterrupts ==
    /\ tk.pc = "arm_int"
    /\ rtcIntEn' = TRUE
    /\ regWrites' = regWrites + 1
    /\ tk' = [tk EXCEPT !.pc = "arm_set"]
    /\ readVal' = -1
    /\ UNCHANGED <<rtcCount, rtcBoot, rtcAlarm, rtcAlarmEn, rtcPending, fired>>
    /\ UNCHANGED <<irqFired, alarmLog, gpioVars>>

\* line 156: adi_rtc_SetAlarm(hRTC1_Device, set_time)
TickerSetAlarm ==
    /\ tk.pc = "arm_set"
    /\ rtcAlarm' = tk.set_time
    /\ regWrites' = regWrites + 1
    /\ tk' = [tk EXCEPT !.pc = "arm_en"]
    /\ alarmLog' = [alarmLog EXCEPT !.armed = tk.ncalls]
    /\ readVal' = -1
    /\ UNCHANGED <<rtcCount, rtcBoot, rtcAlarmEn, rtcIntEn, rtcPending, fired>>
    /\ UNCHANGED <<irqFired, gpioVars>>

\* lines 157-160: adi_rtc_EnableAlarm(hRTC1_Device, true) and the return
TickerEnableAlarm ==
    /\ tk.pc = "arm_en"
    /\ rtcAlarmEn' = TRUE
    /\ regWrites' = regWrites + 1
    /\ tk' = [tk EXCEPT !.pc = "returned"]
    /\ alarmLog' = [alarmLog EXCEPT !.armedLate = (TicksSince(tk.now) > TICKS_TO_ENABLE_ALARM)]
    /\ readVal' = -1
    /\ UNCHANGED <<rtcCount, rtcBoot, rtcAlarm, rtcIntEn, rtcPending, fired>>
    /\ UNCHANGED <<irqFired, gpioVars>>

\* lp_ticker_disable_interrupt masking the interrupt but leaving the alarm enabled
DisableLeavesAlarmEnabled ==
    /\ NoCallInProgress
    /\ rtcAlarmEn' = rtcAlarmEn
    /\ rtcIntEn' = FALSE
    /\ alarmLog' = IF tk.pc = "returned" /\ tk.branch = "normal" /\ rtcAlarmEn /\ ~Reached
                   THEN [alarmLog EXCEPT !.cancelled = @ \cup {tk.ncalls}]
                   ELSE alarmLog
    /\ readVal' = -1
    /\ UNCHANGED <<rtcCount, rtcBoot, rtcAlarm, rtcPending, tk, fired, regWrites>>
    /\ UNCHANGED <<irqFired, gpioVars>>

\* lp_ticker_disable_interrupt()
TickerDisableInterrupt ==
    /\ NoCallInProgress
    /\ rtcAlarmEn' = FALSE
    /\ rtcIntEn' = FALSE
    /\ alarmLog' = IF tk.pc = "returned" /\ tk.branch = "normal" /\ rtcAlarmEn /\ ~Reached
                   THEN [alarmLog EXCEPT !.cancelled = @ \cup {tk.ncalls}]
                   ELSE alarmLog
    /\ readVal' = -1
    /\ UNCHANGED <<rtcCount, rtcBoot, rtcAlarm, rtcPending, tk, fired, regWrites>>
    /\ UNCHANGED <<irqFired, gpioVars>>

\* lp_ticker_read()
TickerRead ==
    /\ NoCallInProgress
    /\ readVal' \in lp_ticker_read(rtcCount)
    /\ UNCHANGED <<rtcCount, rtcBoot, rtcAlarm, rtcAlarmEn, rtcIntEn, rtcPending, tk,
                   fired, regWrites>>
    /\ UNCHANGED <<irqFired, alarmLog, gpioVars>>

\* The counter advances by one tick; an enabled comparator latches a match
RtcTick ==
    /\ (rtcCount - rtcBoot) % WordMod < MaxTicks
    /\ rtcCount' = (rtcCount + 1) % WordMod
    /\ rtcPending' = (rtcPending \/ (rtcAlarmEn /\ rtcCount' = rtcAlarm))
    /\ alarmLog' = IF rtcAlarmEn /\ rtcCount' = rtcAlarm
                   THEN [alarmLog EXCEPT !.pending = [for |-> alarmLog.armed,
                                                      during |-> CallsReturned]]
                   ELSE alarmLog
    /\ readVal' = -1
    /\ UNCHANGED <<rtcBoot, rtcAlarm, rtcAlarmEn, rtcIntEn, tk, fired, regWrites>>
    /\ UNCHANGED <<irqFired, gpioVars>>

\* The RTC interrupt: the driver clears the latched match and calls rtc1_Callback
RtcInterrupt ==
    /\ rtcPending
    /\ rtcIntEn
    /\ rtcPending' = FALSE
    /\ irqFired' = irqFired + rtc1_Callback({ADI_RTC_ALARM_INT})
    /\ alarmLog' = [alarmLog EXCEPT
                       !.pending = NoMatch,
                       !.irq = IF rtc1_Callback({ADI_RTC_ALARM_INT}) = 1
                               THEN Append(@, alarmLog.pending) ELSE @]
    /\ readVal' = -1
    /\ UNCHANGED <<rtcCount, rtcBoot, rtcAlarm, rtcAlarmEn, rtcIntEn, tk, regWrites>>
    /\ UNCHANGED <<fired, gpioVars>>

TickerNext ==
    \/ \E ts \in TimestampSample : TickerSetInterrupt(ts)
    \/ TickerPoll
    \/ TickerEnableInterrupts
    \/ TickerSetAlarm
    \/ TickerEnableAlarm
    \/ TickerDisableInterrupt
    \/ TickerRead
    \/ RtcTick
    \/ RtcInterrupt

\* The ticker left alone, with its counter at rest
TickerAtRest ==
    /\ rtcCount = 0
    /\ rtcBoot = 0
    /\ rtcAlarm = 0
    /\ rtcAlarmEn = FALSE
    /\ rtcIntEn = FALSE
    /\ rtcPending = FALSE
    /\ tk = TickerIdle
    /\ fired = 0
    /\ irqFired = 0
    /\ regWrites = 0
    /\ readVal = -1
    /\ alarmLog = AlarmLogIdle

vars == <<gpioVars, tickerVars>>

\* The gpio interrupt API
Init == GpioInitState /\ TickerAtRest
Next == GpioNext
Spec == Init /\ [][Next]_vars

\* The low power ticker
TickerInit == TickerInitState /\ GpioInitState
SpecTicker == TickerInit /\ [][TickerNext]_vars

\* rtc1_Callback alone: the driver passing it event words with any of the RTC
\* event bits set, in every state of the alarm registers the API leaves
RtcEvents == {ADI_RTC_ALARM_INT, "ADI_RTC_MOD60ALM_INT", "ADI_RTC_ISO_DONE_INT",
              "ADI_RTC_WRITE_PEND_INT"}
\* event words passed in one run
MaxEvents == 2

RtcCallbackInit ==
    /\ GpioInitState
    /\ rtcCount \in StartCounts
    /\ rtcBoot = rtcCount
    /\ rtcAlarm \in {0, 52}
    /\ rtcIntEn \in BOOLEAN
    /\ rtcAlarmEn \in BOOLEAN
    /\ rtcAlarmEn => rtcIntEn
    /\ rtcPending = FALSE
    /\ tk = TickerIdle
    /\ fired = 0
    /\ irqFired = 0
    /\ regWrites = 0
    /\ readVal = -1
    /\ alarmLog = AlarmLogIdle

\* the driver calls rtc1_Callback(pCBParam, nEvent, EventArg), lines 49-55
RtcCallback(nEvent) ==
    /\ alarmLog.served < MaxEvents
    /\ irqFired' = irqFired + rtc1_Callback(nEvent)
    /\ alarmLog' = [alarmLog EXCEPT !.served = @ + 1, !.event = nEvent]
    /\ readVal' = -1
    /\ UNCHANGED <<rtcCount, rtcBoot, rtcAlarm, rtcAlarmEn, rtcIntEn, rtcPending, tk,
                   fired, regWrites>>
    /\ UNCHANGED gpioVars

RtcCallbackNext == \E nEvent \in SUBSET RtcEvents : RtcCallback(nEvent)

SpecRtcCallback == RtcCallbackInit /\ [][RtcCallbackNext]_vars

\* Lines 132-160 of lp_ticker_set_interrupt over deadline ticks and counter values
\* of the whole word range, the deadline given in ticks relative to the counter
BranchCounts == {0, 100, WordMax - 60, WordMax - TICKS_TO_ENABLE_ALARM,
                 WordMax - TICKS_TO_ENABLE_ALARM + 1, WordMax - 10, WordMax - 1}
BranchOffsets == {-1, 0, 1, 2, TICKS_TO_ENABLE_ALARM - 1, TICKS_TO_ENABLE_ALARM,
                  TICKS_TO_ENABLE_ALARM + 1}

BranchInit ==
    /\ GpioInitState
    /\ rtcCount \in BranchCounts
    /\ rtcBoot = rtcCount
    /\ rtcAlarm = 0
    /\ rtcAlarmEn = FALSE
    /\ rtcIntEn = FALSE
    /\ rtcPending = FALSE
    /\ tk = TickerIdle
    /\ fired = 0
    /\ irqFired = 0
    /\ regWrites = 0
    /\ readVal = -1
    /\ alarmLog = AlarmLogIdle

\* lines 132-141 for a deadline of set_time ticks, as the first call made
TickerSetInterruptTicks(set_time) ==
    /\ tk.pc = "idle"
    /\ set_time \in 0 .. WordMax
    /\ ChooseBranch(0, set_time)
    /\ irqFired' = 0
    /\ regWrites' = 0
    /\ readVal' = -1
    /\ UNCHANGED <<rtcCount, rtcBoot, rtcAlarm, rtcAlarmEn, rtcIntEn, rtcPending>>
    /\ UNCHANGED <<alarmLog, gpioVars>>

BranchNext ==
    \/ \E k \in BranchOffsets : TickerSetInterruptTicks(rtcCount + k)
    \/ TickerPoll
    \/ TickerEnableInterrupts
    \/ TickerSetAlarm
    \/ TickerEnableAlarm
    \/ RtcTick
    \/ RtcInterrupt

SpecBranch == BranchInit /\ [][BranchNext]_vars

\* the same with the loop making its next read and the counter advancing
SpecBranchFair == SpecBranch /\ WF_vars(TickerPoll) /\ WF_vars(RtcTick)

\* The gpio interrupt API executed statement by statement, with the interrupt
\* callback preempting it between any two writes
FgBegin(pin, steps, op) ==
    /\ fg.steps = <<>>
    /\ fg' = [pin |-> pin, steps |-> steps,
              before |-> IF pin = NC THEN UnusedEntry ELSE EntryOf(GpioState, pin)]
    /\ calls' = <<>>
    /\ last' = [NoOp EXCEPT !.op = op, !.pin = pin,
                            !.before = IF pin = NC THEN UnusedEntry
                                       ELSE EntryOf(GpioState, pin)]
    /\ UNCHANGED <<channel_ids, irq_handler, gpio_initialized, IENA, IENB, POL,
                   cbReg, objs>>
    /\ UNCHANGED tickerVars

FgInit(o, pin, handler, id) ==
    FgBegin(pin, gpio_irq_init_steps(GpioState, o, pin, handler, id), "init")

FgFree(o) ==
    /\ Initialised(o)
    /\ FgBegin(objs[o].pinname, gpio_irq_free_steps(GpioState, o), "free")

FgSet(o, event, enable) ==
    /\ Initialised(o)
    /\ FgBegin(objs[o].pinname, gpio_irq_set_steps(GpioState, o, event, enable), "set")

FgEnable(o) ==
    /\ Initialised(o)
    /\ FgBegin(objs[o].pinname, gpio_irq_enable_steps(GpioState, o), "enable")

FgDisable(o) ==
    /\ Initialised(o)
    /\ FgBegin(objs[o].pinname, gpio_irq_disable_steps(GpioState, o), "disable")

\* the next write of the call in progress
FgStep ==
    /\ fg.steps # <<>>
    /\ SetGpio(Head(fg.steps))
    /\ fg' = [fg EXCEPT !.steps = Tail(fg.steps)]
    /\ calls' = <<>>
    /\ last' = [last EXCEPT !.op = "write"]
    /\ UNCHANGED tickerVars

\* the pin under reconfiguration while its own edges arrive
PreemptPins == {PinNameOf(1, 0)}

PreemptNext ==
    \/ \E o \in Objs, pin \in PreemptPins \cup {NC}, h \in Handlers \cup {NULL}, id \in Ids :
           FgInit(o, pin, h, id)
    \/ \E o \in Objs : FgFree(o)
    \/ \E o \in Objs, e \in gpio_irq_event, en \in {0, 1} : FgSet(o, e, en)
    \/ \E o \in Objs : FgEnable(o)
    \/ \E o \in Objs : FgDisable(o)
    \/ FgStep
    \/ \E pin \in PreemptPins, e \in {IRQ_RISE, IRQ_FALL} : GpioEdge(pin, e)

SpecPreempt == Init /\ [][PreemptNext]_vars

\* The two conversions alone: a timestamp in microseconds converted to ticks as
\* lp_ticker_set_interrupt converts it (line 130), and the ticks converted back
\* as lp_ticker_read converts the count (lines 113-115)
RoundTripInit ==
    /\ GpioInitState
    /\ rtcCount = 0
    /\ rtcBoot = 0
    /\ rtcAlarm = 0
    /\ rtcAlarmEn = FALSE
    /\ rtcIntEn = FALSE
    /\ rtcPending = FALSE
    /\ \E timestamp \in 0 .. WordMax :
           tk = [TickerIdle EXCEPT !.pc = "convert", !.timestamp = timestamp]
    /\ fired = 0
    /\ irqFired = 0
    /\ regWrites = 0
    /\ readVal = -1
    /\ alarmLog = AlarmLogIdle

RoundTripConvert ==
    /\ tk.pc = "convert"
    /\ \E set_time \in set_time_of(tk.timestamp) :
           /\ tk' = [tk EXCEPT !.pc = "converted", !.set_time = set_time]
           /\ readVal' \in lp_ticker_read(set_time)
    /\ UNCHANGED <<rtcCount, rtcBoot, rtcAlarm, rtcAlarmEn, rtcIntEn, rtcPending, fired,
                   irqFired, regWrites, alarmLog, gpioVars>>

RoundTripNext == RoundTripConvert
SpecRoundTrip == RoundTripInit /\ [][RoundTripNext]_vars

\* gpio_irq_callback alone, applied to a port index and a 16-bit pin bitmask over
\* a channel table whose entries are all distinct
CallbackTable ==
    [k \in Ports \X Lines |->
        [id |-> MAX_GPIO_LINES * k[1] + k[2] + 1,
         event |-> IF k[2] % 3 = 0 THEN IRQ_RISE
                   ELSE IF k[2] % 3 = 1 THEN IRQ_FALL ELSE IRQ_NONE,
         int_enable |-> IF k[2] % 3 = 2 THEN 0 ELSE k[2] % 2]]

\* The register value in which exactly the lines of `port` that are enabled in
\* CallbackTable for `event` have their bit set (lines 3, 9, 15 rising; 1, 7, 13
\* falling), and the polarity register that gpio_irq_set leaves for the table
CallbackEnabledMask(port, event) ==
    IF event = IRQ_RISE THEN 2 ^ 3 + 2 ^ 9 + 2 ^ 15 ELSE 2 ^ 1 + 2 ^ 7 + 2 ^ 13
CallbackPolarityMask == 2 ^ 0 + 2 ^ 3 + 2 ^ 6 + 2 ^ 9 + 2 ^ 12 + 2 ^ 15

CallbackInit ==
    /\ channel_ids = CallbackTable
    /\ irq_handler \in Handlers \cup {NULL}
    /\ gpio_initialized = 1
    /\ IENA = [p \in Ports |-> CallbackEnabledMask(p, IRQ_RISE)]
    /\ IENB = [p \in Ports |-> CallbackEnabledMask(p, IRQ_FALL)]
    /\ POL = [p \in Ports |-> CallbackPolarityMask]
    /\ cbReg = [q \in {SYS_GPIO_INTA_IRQn, SYS_GPIO_INTB_IRQn} |-> TRUE]
    /\ objs = GpioReset.objs
    /\ calls = <<>>
    /\ fg = FgIdle
    /\ \E port \in Ports, mask \in 0 .. (2 ^ MAX_GPIO_LINES - 1) :
           last = [NoOp EXCEPT !.op = "cbarg", !.port = port, !.mask = mask]
    /\ TickerAtRest

GpioIrqCallback ==
    /\ last.op = "cbarg"
    /\ calls' = gpio_irq_callback(GpioState, last.port, last.mask)
    /\ last' = [last EXCEPT !.op = "callback"]
    /\ UNCHANGED <<channel_ids, irq_handler, gpio_initialized, IENA, IENB, POL,
                   cbReg, objs>>
    /\ UNCHANGED <<fg, tickerVars>>

CallbackNext == GpioIrqCallback
SpecCallback == CallbackInit /\ [][CallbackNext]_vars

(***************************************************************************)
(* Properties                                                              *)
(***************************************************************************)
\* the bit positions set in a pin bitmask, and the j-th of them in ascending order
SetBits(mask) == {i \in Lines : BitTest(mask, i)}
NthSetBit(mask, j) ==
    CHOOSE i \in SetBits(mask) : Cardinality({b \in SetBits(mask) : b < i}) = j - 1

\* C1: one run of gpio_irq_callback on port `port` and bitmask `mask` with k set
\* bits invokes the handler k times when one is registered and never when
\* irq_handler is NULL; the j-th invocation is for the j-th lowest set bit i and
\* carries channel_ids[port][i].id and channel_ids[port][i].event.
C1_CallbackDemultiplexes ==
    (last.op = "callback") =>
        IF irq_handler = NULL
        THEN calls = <<>>
        ELSE /\ Len(calls) = Cardinality(SetBits(last.mask))
             /\ \A j \in 1 .. Len(calls) :
                    LET i == NthSetBit(last.mask, j)
                    IN  /\ calls[j].handler = irq_handler
                        /\ calls[j].id = channel_ids[<<last.port, i>>].id
                        /\ calls[j].event = channel_ids[<<last.port, i>>].event

\* a mask with gaps between its set bits, on a port other than 0, with a handler
C1_Witness ==
    /\ last.op = "callback"
    /\ last.port = 2
    /\ last.mask = 2 ^ 1 + 2 ^ 6 + 2 ^ 15
    /\ irq_handler # NULL
    /\ Len(calls) = 3

\* C2: one physical edge of the configured polarity on an enabled pin makes the
\* user handler run exactly once for that pin.
C2_OneCallPerEdge ==
    (/\ last.op = "edge"
     /\ irq_handler # NULL
     /\ EntryOf(GpioState, last.pin).int_enable = 1
     /\ EntryOf(GpioState, last.pin).event = last.event)
    => Len(calls) = 1

\* C3: a pin is unmasked on line INTA only if its configured edge is rising and
\* on line INTB only if it is falling, so never on both lines.
C3_EdgeRouting ==
    \A pin \in PinSample :
        LET port == PortOf(pin)
            n == PinNumOf(pin)
        IN  /\ BitTest(IENA[port], n) => EntryOf(GpioState, pin).event = IRQ_RISE
            /\ BitTest(IENB[port], n) => EntryOf(GpioState, pin).event = IRQ_FALL
            /\ ~(BitTest(IENA[port], n) /\ BitTest(IENB[port], n))

\* the gpio state a failing or ignored call must leave alone
GpioProgramState == <<channel_ids, irq_handler, gpio_initialized, IENA, IENB, POL,
                      cbReg, objs>>

C5_InitResetsSlot ==
    (last.op = "init" /\ last.ret = 0) =>
        /\ EntryOf(GpioState, last.pin) =
               [id |-> last.id, event |-> IRQ_NONE, int_enable |-> 0]
        /\ ~BitTest(IENA[PortOf(last.pin)], PinNumOf(last.pin))
        /\ ~BitTest(IENB[PortOf(last.pin)], PinNumOf(last.pin))

\* gpio_irq_init on a pin that was enabled under another id
C5_Witness ==
    /\ last.op = "init"
    /\ last.ret = 0
    /\ last.before.int_enable = 1
    /\ last.before.event = IRQ_FALL
    /\ last.before.id # last.id

\* C6: gpio_irq_set with event IRQ_NONE changes nothing, for either value of
\* the enable flag: not the configured edge, not int_enable, not the polarity,
\* not the mask bits.
C6_SetNoneIsNoOp ==
    [][(last'.op = "set" /\ last'.event = IRQ_NONE) =>
           GpioProgramState' = GpioProgramState]_vars

\* gpio_irq_set(obj, IRQ_NONE, 0) on a pin that is configured and enabled
C6_Witness ==
    /\ last.op = "set"
    /\ last.event = IRQ_NONE
    /\ last.enable = 0
    /\ last.before.event = IRQ_RISE
    /\ last.before.int_enable = 1
    /\ EntryOf(GpioState, last.pin).int_enable = 1

\* what can be observed of one pin: its channel entry, its mask bit on each
\* line, and the handler invocations an edge of either direction causes
PinView(s, pin) ==
    [entry |-> EntryOf(s, pin),
     ina |-> BitTest(s.IENA[PortOf(pin)], PinNumOf(pin)),
     inb |-> BitTest(s.IENB[PortOf(pin)], PinNumOf(pin)),
     rise |-> PhysicalEdgeCalls(s, PortOf(pin), PinNumOf(pin), IRQ_RISE),
     fall |-> PhysicalEdgeCalls(s, PortOf(pin), PinNumOf(pin), IRQ_FALL)]

\* the state s with the pin as it is when it was never used
NeverUsed(s, pin) ==
    LET port == PortOf(pin)
        n == PinNumOf(pin)
        t == PutChan(s, port, n, UnusedEntry)
    IN  [t EXCEPT !.IENA[port] = BitClear(s.IENA[port], n),
                  !.IENB[port] = BitClear(s.IENB[port], n),
                  !.POL[port] = BitClear(s.POL[port], n)]

\* C7: whatever was done to a pin, gpio_irq_free followed by gpio_irq_init on it
\* with a different id leaves the pin as gpio_irq_init leaves a pin that was
\* never used, and a following gpio_irq_set / gpio_irq_enable / gpio_irq_disable
\* and the edges after it are served alike in both.
C7_FreeInitLikeFresh ==
    \A o \in Objs : Initialised(o) =>
        \A id \in Ids \ {0, EntryOf(GpioState, objs[o].pinname).id}, h \in Handlers \cup {NULL} :
            LET pin == objs[o].pinname
                a == gpio_irq_init(gpio_irq_free(GpioState, o), o, pin, h, id)
                b == gpio_irq_init(NeverUsed(GpioState, pin), o, pin, h, id)
            IN  /\ PinView(a, pin) = PinView(b, pin)
                /\ PinView(gpio_irq_enable(a, o), pin) = PinView(gpio_irq_enable(b, o), pin)
                /\ PinView(gpio_irq_disable(a, o), pin) = PinView(gpio_irq_disable(b, o), pin)
                /\ \A e \in gpio_irq_event, en \in {0, 1} :
                       PinView(gpio_irq_set(a, o, e, en), pin)
                           = PinView(gpio_irq_set(b, o, e, en), pin)

\* gpio_irq_init with a new id on a pin that was configured for the falling
\* edge under another id, freed, and whose polarity bit was once set
C7_Witness ==
    /\ last.op = "init"
    /\ last.ret = 0
    /\ last.before = UnusedEntry
    /\ BitTest(POL[PortOf(last.pin)], PinNumOf(last.pin))
    /\ cbReg[SYS_GPIO_INTB_IRQn]

\* C8: gpio_irq_enable twice leaves what gpio_irq_enable once leaves, likewise
\* gpio_irq_disable, and on a pin with no configured edge either call changes
\* nothing.
C8_EnableDisableIdempotent ==
    \A o \in Objs : Initialised(o) =>
        LET s == GpioState
        IN  /\ gpio_irq_enable(gpio_irq_enable(s, o), o) = gpio_irq_enable(s, o)
            /\ gpio_irq_disable(gpio_irq_disable(s, o), o) = gpio_irq_disable(s, o)
            /\ (EntryOf(s, objs[o].pinname).event = IRQ_NONE) =>
                   (gpio_irq_enable(s, o) = s /\ gpio_irq_disable(s, o) = s)

\* gpio_irq_enable called on a pin that was enabled already
C8_Witness ==
    /\ last.op = "enable"
    /\ last.before.int_enable = 1
    /\ last.before.event = IRQ_RISE

\* C9: when lp_ticker_set_interrupt finds the deadline tick at or before the
\* count it reads, it invokes the expiration handler exactly once, returns, and
\* writes no alarm register.
C9_ElapsedFiresOnce ==
    (tk.pc # "idle" /\ tk.set_time <= tk.now) =>
        /\ tk.pc = "returned"
        /\ fired = 1
        /\ regWrites = 0

\* a call made with an elapsed deadline while an earlier alarm is armed
C9_Witness ==
    /\ tk.pc = "returned"
    /\ tk.set_time <= tk.now
    /\ tk.set_time > 0
    /\ fired = 1
    /\ rtcAlarmEn
    /\ rtcAlarm # tk.set_time

\* C10: when lp_ticker_set_interrupt finds the deadline tick within
\* TICKS_TO_ENABLE_ALARM ticks after the count it reads, it invokes the
\* expiration handler exactly once before it returns, and lp_ticker_read()
\* called after the return yields at least the deadline asked for.
C10_NearDeadlineReached ==
    (/\ tk.pc = "returned"
     /\ tk.now < tk.set_time
     /\ tk.set_time <= tk.now + TICKS_TO_ENABLE_ALARM)
    => /\ fired = 1
       /\ (readVal # -1) => (readVal >= tk.timestamp)

\* the number of handler invocations made from the RTC interrupt for the deadline
\* of call c
IrqCount(c) ==
    Cardinality({i \in 1 .. Len(alarmLog.irq) : alarmLog.irq[i].for = c})

\* the comparator branch of the call in tk is being executed
Arming == tk.pc \in {"arm_int", "arm_set", "arm_en"}

\* the call in tk armed the comparator, has returned, and neither
\* lp_ticker_disable_interrupt nor another call was made since
ArmedAndLeftAlone ==
    /\ tk.branch = "normal"
    /\ tk.pc = "returned"
    /\ rtcAlarmEn
    /\ rtcIntEn

\* the handler is invoked for the deadline of the call in tk exactly once, when
\* the counter reaches it: not before, not twice, and not never
FiresOnceWhenReached ==
    /\ fired = 0
    /\ IrqCount(tk.ncalls) <= 1
    /\ (IrqCount(tk.ncalls) = 1) => Reached
    /\ Reached => (IrqCount(tk.ncalls) = 1 \/ alarmLog.pending.for = tk.ncalls)

\* C11 as stated: a call with a deadline more than TICKS_TO_ENABLE_ALARM ticks
\* ahead returns without invoking the handler, and the handler is then invoked
\* exactly once, when the counter reaches the deadline, however far the counter
\* advances while the call is arming the comparator.
C11_FutureDeadlineFiresOnce ==
    /\ (tk.branch = "normal" /\ Arming) => (fired = 0 /\ IrqCount(tk.ncalls) = 0)
    /\ ArmedAndLeftAlone => FiresOnceWhenReached

\* C11 amended: the same, for the calls during which the counter advances by no
\* more than TICKS_TO_ENABLE_ALARM ticks between the read of the counter and the
\* enabling of the alarm.
C11_FutureDeadlineFiresOnceArmedInTime ==
    /\ (tk.branch = "normal" /\ Arming /\ TicksSince(tk.now) <= TICKS_TO_ENABLE_ALARM)
           => (fired = 0 /\ IrqCount(tk.ncalls) = 0)
    /\ (ArmedAndLeftAlone /\ ~alarmLog.armedLate) => FiresOnceWhenReached

\* a second call armed in time while the counter advanced, whose deadline was
\* then reached and served by one invocation
C11_Witness ==
    /\ ArmedAndLeftAlone
    /\ ~alarmLog.armedLate
    /\ tk.ncalls = 2
    /\ Reached
    /\ IrqCount(2) = 1
    /\ rtcCount > tk.set_time

\* C12: a deadline armed in the future and disabled before the counter reaches
\* it never has the handler invoked for it, and no match is ever latched for it,
\* however far the counter advances and whatever is called afterwards.
C12_DisabledNeverFires ==
    \A c \in alarmLog.cancelled :
        /\ IrqCount(c) = 0
        /\ alarmLog.pending.for # c
        /\ (tk.ncalls = c) => (fired = 0)

\* the first call was disabled before its deadline, the counter has since passed
\* the deadline, and a later call has armed and fired another deadline
C12_Witness ==
    /\ 1 \in alarmLog.cancelled
    /\ tk.ncalls = 2
    /\ tk.branch = "normal"
    /\ IrqCount(2) = 1
    /\ IrqCount(1) = 0

\* C13: at most one deadline is pending: once a call of lp_ticker_set_interrupt
\* has returned, whichever branch it took, no match is latched and no handler
\* invocation is made for the deadline of an earlier call.
C13_LaterCallOverwrites ==
    /\ alarmLog.pending.during <= alarmLog.pending.for
    /\ \A i \in 1 .. Len(alarmLog.irq) : alarmLog.irq[i].during <= alarmLog.irq[i].for

\* C14: a timestamp converted to ticks and back gives a value that is not
\* greater than the timestamp and less than one tick duration
\* (TIME_US_PER_TICK microseconds) below it.
C14_RoundTripWithinOneTick ==
    (tk.pc = "converted") =>
        /\ readVal <= tk.timestamp
        /\ (tk.timestamp - readVal) * TIME_US_PER_TICK.den < TIME_US_PER_TICK.num

\* the (id, configured edge) pair of a channel entry, as the callback delivers it
PairOf(entry) == <<entry.id, entry.event>>

\* every sequence of writes ends in the state the call as a whole leaves
StepsAgreeWithCalls ==
    /\ \A o \in Objs, pin \in PinSample \cup {NC}, h \in Handlers \cup {NULL}, id \in Ids :
           LastOf(GpioState, gpio_irq_init_steps(GpioState, o, pin, h, id))
               = gpio_irq_init(GpioState, o, pin, h, id)
    /\ \A o \in Objs : Initialised(o) =>
           /\ LastOf(GpioState, gpio_irq_free_steps(GpioState, o)) = gpio_irq_free(GpioState, o)
           /\ LastOf(GpioState, gpio_irq_enable_steps(GpioState, o)) = gpio_irq_enable(GpioState, o)
           /\ LastOf(GpioState, gpio_irq_disable_steps(GpioState, o)) = gpio_irq_disable(GpioState, o)
           /\ \A e \in gpio_irq_event, en \in {0, 1} :
                  LastOf(GpioState, gpio_irq_set_steps(GpioState, o, e, en))
                      = gpio_irq_set(GpioState, o, e, en)

\* the foreground has written part of the pin's (id, edge) pair and not yet all
HalfUpdated(pin) ==
    /\ fg.steps # <<>>
    /\ fg.pin = pin
    /\ PairOf(EntryOf(GpioState, pin)) # PairOf(fg.before)
    /\ PairOf(EntryOf(GpioState, pin)) # PairOf(EntryOf(LastOf(GpioState, fg.steps), pin))

\* C15: with the callback preempting the foreground between any two writes, the
\* id and the configured edge of a channel entry are written only while the pin
\* is masked on INTA and on INTB, and the callback delivers nothing for a pin
\* whose (id, edge) pair the foreground has half updated.
C15_EntryWrittenOnlyWhileMasked ==
    [][/\ \A pin \in PinSample :
              (PairOf(EntryOf(GpioState, pin))' # PairOf(EntryOf(GpioState, pin)))
              => /\ ~BitTest(IENA[PortOf(pin)], PinNumOf(pin))
                 /\ ~BitTest(IENB[PortOf(pin)], PinNumOf(pin))
       /\ (last'.op = "edge" /\ HalfUpdated(last'.pin)) => (calls' = <<>>)]_vars

\* the pin's bit is clear in IENA and in IENB
MaskedOnBothLines(pin) ==
    /\ ~BitTest(IENA[PortOf(pin)], PinNumOf(pin))
    /\ ~BitTest(IENB[PortOf(pin)], PinNumOf(pin))

\* C16: a pin whose entry is released (id 0: freed and not initialised again, or
\* never initialised) is masked on both lines, and no invocation of the user
\* handler carries the logical id 0.
C16_FreedPinStaysSilent ==
    /\ \A pin \in PinSample : (EntryOf(GpioState, pin).id = 0) => MaskedOnBothLines(pin)
    /\ \A i \in 1 .. Len(calls) : calls[i].id # 0

\* What does hold: a released pin stays masked as long as no call other than
\* gpio_irq_init is made with the object that owned it.
C16_FreedPinStaysSilentUntilReused ==
    [][\A pin \in PinSample :
          (/\ EntryOf(GpioState, pin).id = 0
           /\ MaskedOnBothLines(pin)
           /\ ~(last'.op \in {"set", "enable", "disable", "free"} /\ last'.pin = pin))
          => /\ MaskedOnBothLines(pin)'
             /\ (last'.op = "edge" /\ last'.pin = pin) => (calls' = <<>>)]_vars

\* the call in tk was made with its deadline ahead of the count read at line 133
\* by at most TICKS_TO_ENABLE_ALARM ticks
DeadlineWithinMargin ==
    /\ tk.pc # "idle"
    /\ tk.now < tk.set_time
    /\ tk.set_time <= tk.now + TICKS_TO_ENABLE_ALARM

\* the call in tk busy-polls and has written no comparator register
PollsWithoutComparator == tk.branch = "near" /\ regWrites = 0

C17_ConvertedDeadlineBelowWrap ==
    (tk.pc # "idle" /\ tk.now < tk.set_time) => tk.now + TICKS_TO_ENABLE_ALARM <= WordMax

\* the busy-poll loop is running and the counter has advanced by
\* TICKS_TO_ENABLE_ALARM ticks or more since the count read on entry
PollingPastMargin ==
    /\ tk.pc = "poll"
    /\ TicksSince(tk.now) >= TICKS_TO_ENABLE_ALARM

C18_PollTerminates ==
    (/\ tk.pc = "poll"
     /\ tk.set_time <= rtcBoot + MaxTicks
     /\ rtcBoot + MaxTicks <= WordMax) ~> (tk.pc = "returned")

\* C19: every call of rtc1_Callback invokes the expiration handler once if
\* ADI_RTC_ALARM_INT is among the bits of the event word, whatever the other
\* bits, and not at all otherwise, and leaves the interrupt mask, the
\* comparator value and the alarm enable as they were.
C19_CallbackFiltersAlarmBit ==
    [][(alarmLog'.served # alarmLog.served)
       => /\ irqFired' - irqFired
                = IF ADI_RTC_ALARM_INT \in alarmLog'.event THEN 1 ELSE 0
          /\ UNCHANGED <<rtcIntEn, rtcAlarm, rtcAlarmEn>>]_vars

\* with the alarm armed, an event word without the alarm bit and then one with
\* the alarm bit among others: one invocation in all
C19_Witness ==
    /\ alarmLog.served = 2
    /\ alarmLog.event = {ADI_RTC_ALARM_INT, "ADI_RTC_MOD60ALM_INT"}
    /\ irqFired = 1
    /\ rtcIntEn /\ rtcAlarmEn /\ rtcAlarm = 52

\* register value v with the bit of `pin` cleared if `port` is the pin's port
WithoutPin(v, port, pin) ==
    IF pin # NC /\ port = PortOf(pin) THEN BitClear(v, PinNumOf(pin)) ELSE v

\* the step leaves the channel entry, the mask bits on INTA and INTB and the
\* polarity bit of every pin other than `pin` as they were
OtherPinsUnchanged(pin) ==
    /\ \A k \in (DOMAIN channel_ids \cup DOMAIN channel_ids') :
           (pin = NC \/ k # <<PortOf(pin), PinNumOf(pin)>>)
           => Chan(GpioState, k[1], k[2])' = Chan(GpioState, k[1], k[2])
    /\ \A port \in Ports :
           /\ WithoutPin(IENA'[port], port, pin) = WithoutPin(IENA[port], port, pin)
           /\ WithoutPin(IENB'[port], port, pin) = WithoutPin(IENB[port], port, pin)
           /\ WithoutPin(POL'[port], port, pin) = WithoutPin(POL[port], port, pin)

====
